---- MODULE Spec2Model ----
(***************************************************************************)
(* Transaction execution core of matthieu/go-ethereum:                     *)
(*   - the transaction sequencer  (core/types/transaction.go)              *)
(*   - the block state processor  (core/state_processor.go)                *)
(*   - the internal-transaction recorders (core/internals_processor.go,    *)
(*     core/vm_env.go, core/types/internaltx.go)                           *)
(*   - the block gas pool                                                  *)
(* Every component is a group of variables with its own specification; a   *)
(* specification keeps the other groups at their idle value.               *)
(***************************************************************************)
EXTENDS Integers, Sequences, FiniteSets, TLC

VARIABLES
    \* ---- sequencer: SortByPriceAndNonce(txs)
    input,      \* the argument slice as the caller passed it
    txs,        \* the backing array of the argument, overwritten in place
    outLen,     \* len of the local slice txs after txs = txs[:0]
    byNonce,    \* map[common.Address][]*Transaction
    byPrice,    \* TxByPrice heap
    seqPc,      \* position in SortByPriceAndNonce
    \* ---- internal-transaction recorders of one top-level transaction
    revision,   \* the recorder the execution reports to: "watcher" or "env",
                \* or "ledger": the env together with its state ledger
    internals,  \* InternalTxWatcher.internals
    internalTxs, \* VMEnv.internalTxs
    depth,      \* VMEnv.depth
    hash,       \* VMEnv.hash
    producers,  \* the watcher operation that appended each entry of internals
    dispatched, \* the sub-operations the env was handed by AddInternalTransaction
    stateObjs,  \* the StateDB objects: VMEnv.state is the first, copies follow
    handles,    \* the handles MakeSnapshot returned, with what they captured
    restored,   \* the handle the last operation restored, 0 when it restored none
    \* ---- gas pool
    pool,       \* the GasPool counter
    lastSub,    \* the last SubGas call: amount, pool before, error
    \* ---- StateProcessor.Process(block, statedb, cfg)
    block,      \* the block: number, gas limit, coinbase, hash, transactions
    config,     \* params.ChainConfig
    statedb,    \* the state ledger handed to Process
    entry,      \* the content of the ledger when Process was called
    gp,         \* the gas pool of the block
    usedGas,    \* *usedGas
    receipts,   \* receipts
    allLogs,    \* allLogs
    intTxs,     \* intTxs
    vmerrs,     \* vmerrs
    procI,      \* the index i of the loop over block.Transactions()
    procPc,     \* position in Process
    ret,        \* what Process returned
    applied,    \* the calls of ApplyTransaction so far
    finalized,  \* the calls of engine.Finalize so far
    finalizeArgs, \* what engine.Finalize was called with
    \* ---- Transaction instances and the callers of their derived values
    txObjs,     \* the Transaction objects: Dat and the caches hash, size, from
    callers,    \* per caller: the method it is in, its position and its local
    computed,   \* per object: how often each derived value was computed
    results,    \* what the calls returned
    txCalls,    \* the calls of Hash, Size, From and FromFrontier started so far
    chain,      \* the block store behind the execution context: the blocks it resolves
    envHeader,  \* the header the execution context is bound to
    hashCalls   \* the calls of GetHash so far: argument, result, blocks looked up

seqVars == <<input, txs, outLen, byNonce, byPrice, seqPc>>

recVars == <<revision, internals, internalTxs, depth, hash, producers, dispatched,
             stateObjs, handles, restored>>

poolVars == <<pool, lastSub>>

procVars == <<block, config, statedb, entry, gp, usedGas, receipts, allLogs,
              intTxs, vmerrs, procI, procPc, ret, applied, finalized, finalizeArgs>>

txVars == <<txObjs, callers, computed, results, txCalls>>

chainVars == <<chain, envHeader, hashCalls>>

extVars == <<txVars, chainVars>>

vars == <<seqVars, recVars, poolVars, procVars, extVars>>

Nil == "nil"

\* the value of a group of variables in the specifications of the other groups
SeqIdle ==
    /\ input = <<>>
    /\ txs = <<>>
    /\ outLen = 0
    /\ byNonce = <<>>
    /\ byPrice = <<>>
    /\ seqPc = "idle"

RecIdle ==
    /\ revision = "idle"
    /\ internals = <<>>
    /\ internalTxs = <<>>
    /\ depth = 0
    /\ hash = Nil
    /\ producers = <<>>
    /\ dispatched = 0
    /\ stateObjs = <<>>
    /\ handles = <<>>
    /\ restored = 0

NoSub == [called |-> FALSE, amount |-> 0, before |-> 0, err |-> Nil]

PoolIdle ==
    /\ pool = 0
    /\ lastSub = NoSub

NoReturn == [receipts |-> <<>>, logs |-> <<>>, intTxs |-> <<>>, vmerrs |-> <<>>,
             gas |-> 0, err |-> Nil]

ProcIdle ==
    /\ block = <<>>
    /\ config = <<>>
    /\ statedb = <<>>
    /\ entry = <<>>
    /\ gp = 0
    /\ usedGas = 0
    /\ receipts = <<>>
    /\ allLogs = <<>>
    /\ intTxs = <<>>
    /\ vmerrs = <<>>
    /\ procI = 0
    /\ procPc = "idle"
    /\ ret = NoReturn
    /\ applied = <<>>
    /\ finalized = 0
    /\ finalizeArgs = <<>>

TxIdle ==
    /\ txObjs = <<>>
    /\ callers = <<>>
    /\ computed = <<>>
    /\ results = {}
    /\ txCalls = 0

ChainIdle ==
    /\ chain = {}
    /\ envHeader = <<>>
    /\ hashCalls = <<>>

ExtIdle == TxIdle /\ ChainIdle

(***************************************************************************)
(* Bounds and input domains                                                *)
(***************************************************************************)
MaxTxs == 3

Senders == {"A", "B"}

\* the <<nonce, gas price>> pairs of the input transactions: ascending and
\* descending prices along the nonces, equal nonces and equal prices
NoncePrices == {<<0, 15>>, <<5, 10>>, <<6, 20>>, <<5, 15>>, <<6, 10>>}

Range(s) == {s[i] : i \in 1..Len(s)}

SeqsUpTo(S, n) == UNION {[1..k -> S] : k \in 0..n}

(***************************************************************************)
(* Transactions as the sequencer sees them: the sender From() recovers,    *)
(* Dat.AccountNonce and Dat.Price.  id is the identity of the pointer.     *)
(* The sequencer is given transactions whose sender derivation succeeds    *)
(* ("we only sort valid txs so this cannot fail", line 388).               *)
(***************************************************************************)
TxVals == {[from |-> a, nonce |-> np[1], price |-> np[2]] : a \in Senders, np \in NoncePrices}

MkTx(i, v) == [id |-> i, from |-> v.from, nonce |-> v.nonce, price |-> v.price]

\* Swap of the sort and heap interfaces, on 0-based positions
Swap(s, i, j) == [s EXCEPT ![i + 1] = s[j + 1], ![j + 1] = s[i + 1]]

\* TxByNonce.Less
NonceLess(s, i, j) == s[i + 1].nonce < s[j + 1].nonce

\* the comparison of the heap turned around
PriceLessAscending(s, i, j) == s[i + 1].price < s[j + 1].price

\* TxByPrice.Less: the heap is a max-heap on the price
PriceLess(s, i, j) == s[i + 1].price > s[j + 1].price

\* sort.Sort(TxByNonce(accTxs)): for the short slices of the model Go's
\* sort.Sort is its insertion sort: for i := a+1; i < b; i++ {
\*   for j := i; j > a && Less(j, j-1); j-- { Swap(j, j-1) } }
RECURSIVE InsertDown(_, _)
InsertDown(s, j) ==
    IF j > 0 /\ NonceLess(s, j, j - 1)
    THEN InsertDown(Swap(s, j, j - 1), j - 1)
    ELSE s

RECURSIVE InsertionSort(_, _)
InsertionSort(s, i) ==
    IF i < Len(s) THEN InsertionSort(InsertDown(s, i), i + 1) ELSE s

\* the partition left in input order
SortByNonceUnsorted(s) == s

SortByNonce(s) == InsertionSort(s, 1)

\* container/heap down(h, i0, n)
RECURSIVE HeapDown(_, _, _)
HeapDown(h, i, n) ==
    LET j1 == 2 * i + 1 IN
    IF j1 >= n THEN h
    ELSE LET j2 == j1 + 1
             j  == IF j2 < n /\ PriceLess(h, j2, j1) THEN j2 ELSE j1
         IN IF ~PriceLess(h, j, i) THEN h
            ELSE HeapDown(Swap(h, i, j), j, n)

\* container/heap up(h, j); Go's (j-1)/2 truncates toward zero
RECURSIVE HeapUp(_, _)
HeapUp(h, j) ==
    LET i == IF j = 0 THEN 0 ELSE (j - 1) \div 2 IN
    IF i = j \/ ~PriceLess(h, j, i) THEN h
    ELSE HeapUp(Swap(h, i, j), i)

\* heap.Init: for i := n/2 - 1; i >= 0; i-- { down(h, i, n) }
RECURSIVE HeapInitLoop(_, _)
HeapInitLoop(h, i) ==
    IF i < 0 THEN h ELSE HeapInitLoop(HeapDown(h, i, Len(h)), i - 1)

HeapInit(h) == HeapInitLoop(h, (Len(h) \div 2) - 1)

\* a pop that returns the best element and leaves it in the heap
HeapPopKept(h) ==
    LET n  == Len(h) - 1
        h2 == HeapDown(Swap(h, 0, n), 0, n)
    IN [best |-> h2[n + 1], heap |-> h2]

\* heap.Pop: n := h.Len()-1; h.Swap(0, n); down(h, 0, n); return h.Pop()
HeapPop(h) ==
    LET n  == Len(h) - 1
        h2 == HeapDown(Swap(h, 0, n), 0, n)
    IN [best |-> h2[n + 1], heap |-> SubSeq(h2, 1, n)]

\* a push that loses its element
HeapPushLost(h, x) == h

\* heap.Push: h.Push(x); up(h, h.Len()-1)
HeapPush(h, x) == LET h1 == Append(h, x) IN HeapUp(h1, Len(h1) - 1)

\* lines 386-390: separate the transactions by account, in input order
RECURSIVE SelectFrom(_, _)
SelectFrom(s, acc) ==
    IF s = <<>> THEN <<>>
    ELSE IF Head(s).from = acc
         THEN <<Head(s)>> \o SelectFrom(Tail(s), acc)
         ELSE SelectFrom(Tail(s), acc)

Accounts(s) == {s[i].from : i \in 1..Len(s)}

\* the orders in which a range over a Go map may visit the keys
KeyOrders(K) ==
    {o \in [1..Cardinality(K) -> K] : \A i, j \in DOMAIN o : i # j => o[i] # o[j]}

\* lines 386-393: the map of the accounts to their transactions by nonce
Partition(s) == [acc \in Accounts(s) |-> SortByNonce(SelectFrom(s, acc))]

\* lines 395-400: the heap of the head transactions, the map visited in order o
SeedHeap(m, o) == HeapInit([i \in 1..Len(o) |-> m[o[i]][1]])

(***************************************************************************)
(* SortByPriceAndNonce                                                     *)
(***************************************************************************)
SeqInit ==
    /\ \E vs \in SeqsUpTo(TxVals, MaxTxs) :
          input = [i \in 1..Len(vs) |-> MkTx(i, vs[i])]
    /\ txs = input
    /\ outLen = Len(input)
    /\ byNonce = <<>>
    /\ byPrice = <<>>
    /\ seqPc = "partition"
    /\ RecIdle /\ PoolIdle /\ ProcIdle /\ ExtIdle

\* lines 386-393: partition by account, sort every partition by nonce
SeqPartition ==
    /\ seqPc = "partition"
    /\ byNonce' = Partition(txs)
    /\ seqPc' = "seed"
    /\ UNCHANGED <<input, txs, outLen, byPrice, recVars, poolVars, procVars, extVars>>

\* lines 395-403: seed the heap with the head of every account, in the
\* order the range over the map yields the accounts, then heap.Init and
\* txs = txs[:0]
SeqSeed ==
    /\ seqPc = "seed"
    /\ \E o \in KeyOrders(DOMAIN byNonce) : byPrice' = SeedHeap(byNonce, o)
    /\ byNonce' = [acc \in DOMAIN byNonce |-> Tail(byNonce[acc])]
    /\ outLen' = 0
    /\ seqPc' = "merge"
    /\ UNCHANGED <<input, txs, recVars, poolVars, procVars, extVars>>

\* lines 406-415: the body of the merge loop on the locals of the function
MergeStep(st) ==
    LET p    == HeapPop(st.byPrice)
        best == p.best
        acc  == best.from
        more == acc \in DOMAIN st.byNonce /\ Len(st.byNonce[acc]) > 0
    IN [byPrice |-> IF more THEN HeapPush(p.heap, st.byNonce[acc][1]) ELSE p.heap,
        byNonce |-> IF more THEN [st.byNonce EXCEPT ![acc] = Tail(@)] ELSE st.byNonce,
        txs     |-> [st.txs EXCEPT ![st.outLen + 1] = best],
        outLen  |-> st.outLen + 1]

\* lines 404-416: one iteration of the merge loop
SeqMerge ==
    /\ seqPc = "merge"
    /\ Len(byPrice) > 0
    /\ LET st == MergeStep([byPrice |-> byPrice, byNonce |-> byNonce,
                            txs |-> txs, outLen |-> outLen])
       IN /\ byPrice' = st.byPrice
          /\ byNonce' = st.byNonce
          /\ txs' = st.txs
          /\ outLen' = st.outLen
    /\ UNCHANGED <<input, seqPc, recVars, poolVars, procVars, extVars>>

\* line 404 with an empty heap, line 417: the function returns
SeqReturn ==
    /\ seqPc = "merge"
    /\ Len(byPrice) = 0
    /\ seqPc' = "done"
    /\ UNCHANGED <<input, txs, outLen, byNonce, byPrice, recVars, poolVars, procVars,
                   extVars>>

SeqNext == SeqPartition \/ SeqSeed \/ SeqMerge \/ SeqReturn

SpecSeq == SeqInit /\ [][SeqNext]_vars /\ WF_vars(SeqNext)


(***************************************************************************)
(* Properties of the sequencer                                             *)
(***************************************************************************)
\* the transactions emitted so far, in emission order
Emitted == SubSeq(txs, 1, outLen)

Emitting == seqPc \in {"merge", "done"}

\* C5: for every sender the output restricted to that sender is in ascending
\* nonce order: no transaction of a sender is emitted before a transaction of
\* the same sender with a lower nonce, emitted later or not emitted yet.
SeqNonceOrder ==
    Emitting =>
        /\ \A i, j \in 1..outLen :
              (i < j /\ txs[i].from = txs[j].from) => txs[i].nonce <= txs[j].nonce
        /\ \A i \in 1..outLen : \A k \in 1..Len(input) :
              (input[k].from = txs[i].from /\ input[k] \notin Range(Emitted))
                  => txs[i].nonce <= input[k].nonce

\* a sender's transactions came in descending nonce order and were emitted
SeqNonceOrderWitness ==
    /\ seqPc = "done"
    /\ \E i, j \in 1..Len(input) :
          /\ i < j
          /\ input[i].from = input[j].from
          /\ input[i].nonce > input[j].nonce
    /\ outLen = Len(input)

\* C6: the output is a permutation of the input: every input transaction is
\* in the output exactly once and the output holds nothing else, the empty
\* and the single-sender input included.
SeqPermutation ==
    seqPc = "done" =>
        /\ Len(txs) = Len(input)
        /\ outLen = Len(input)
        /\ \A k \in 1..Len(input) :
              Cardinality({i \in 1..outLen : txs[i] = input[k]}) = 1
        /\ \A i \in 1..outLen : txs[i] \in Range(input)

\* three transactions of two senders went through the merge
SeqPermutationWitness ==
    /\ seqPc = "done"
    /\ Len(input) >= 3
    /\ Cardinality(Accounts(input)) = 2
    /\ Emitted # input

\* the transactions of account acc in the order of its partition
PartitionOf(acc) == SortByNonce(SelectFrom(input, acc))

\* the positions of the partition of acc not emitted in the first m emissions
Waiting(acc, m) ==
    {k \in 1..Len(PartitionOf(acc)) :
        PartitionOf(acc)[k] \notin {txs[i] : i \in 1..m}}

HasHead(acc, m) == Waiting(acc, m) # {}

\* the current head of acc after m emissions: its first transaction by nonce
\* that is not emitted
HeadOf(acc, m) ==
    PartitionOf(acc)[CHOOSE k \in Waiting(acc, m) : \A l \in Waiting(acc, m) : k <= l]

ScenarioOutput ==
    << [from |-> "B", nonce |-> 0, price |-> 15],
       [from |-> "A", nonce |-> 5, price |-> 10],
       [from |-> "A", nonce |-> 6, price |-> 20] >>

TxContent(s) == [i \in 1..Len(s) |-> [from |-> s[i].from, nonce |-> s[i].nonce, price |-> s[i].price]]

IsScenarioInput ==
    /\ Len(input) = 3
    /\ Range(TxContent(input)) = Range(ScenarioOutput)

\* C7: every emitted transaction has a gas price >= the price of the current
\* head of every other sender at the moment it is emitted, it is the current
\* head of its own sender, the heap holds only current heads, and the input
\* {A/5 price 10, A/6 price 20, B/0 price 15} gives B/0, A/5, A/6.
SeqGreedyByPrice ==
    Emitting =>
        /\ \A m \in 1..outLen :
              /\ txs[m] = HeadOf(txs[m].from, m - 1)
              /\ \A acc \in Accounts(input) \ {txs[m].from} :
                    HasHead(acc, m - 1) => txs[m].price >= HeadOf(acc, m - 1).price
        /\ \A h \in 1..Len(byPrice) :
              /\ HasHead(byPrice[h].from, outLen)
              /\ byPrice[h] = HeadOf(byPrice[h].from, outLen)
        /\ (seqPc = "done" /\ IsScenarioInput) => TxContent(Emitted) = ScenarioOutput

\* the scenario of the specification ran to its end
SeqGreedyByPriceWitness ==
    /\ seqPc = "done"
    /\ IsScenarioInput
    /\ TxContent(Emitted) = ScenarioOutput

\* the locals of the function after line 403 when the map is visited in order o
SeededRun(in, o) ==
    LET m == Partition(in)
    IN [byPrice |-> SeedHeap(m, o),
        byNonce |-> [acc \in DOMAIN m |-> Tail(m[acc])],
        txs     |-> in,
        outLen  |-> 0]

RECURSIVE MergeAll(_)
MergeAll(st) == IF Len(st.byPrice) = 0 THEN st.txs ELSE MergeAll(MergeStep(st))

\* the output of the run that visits the accounts in one fixed order
FixedOrderOutput(in) ==
    MergeAll(SeededRun(in, CHOOSE o \in KeyOrders(Accounts(in)) : TRUE))

\* C8: the sequencer is deterministic: every run on an input gives the output
\* of the run that visits the accounts in a fixed order, so two runs on the
\* same input give the same output, equal head prices included.
SeqDeterministic == seqPc = "done" => txs = FixedOrderOutput(input)

\* C9: the merge terminates: every iteration emits exactly one transaction and
\* inserts at most one, the loop ends exactly when the heap is empty, and then
\* every partition is empty and the output length is the input length.
SeqTerminates ==
    /\ <>(seqPc = "done")
    /\ [][(seqPc = "merge" /\ seqPc' = "merge") =>
            /\ Len(byPrice) > 0
            /\ outLen' = outLen + 1
            /\ Len(byPrice') \in {Len(byPrice) - 1, Len(byPrice)}]_vars
    /\ [][(seqPc = "merge" /\ seqPc' = "done") => Len(byPrice) = 0]_vars
    /\ [](Emitting => outLen <= Len(input))
    /\ [](seqPc = "done" =>
            /\ Len(byPrice) = 0
            /\ \A acc \in DOMAIN byNonce : byNonce[acc] = <<>>
            /\ outLen = Len(input))

\* a run of MaxTxs iterations, one of them with an insertion, came to its end
SeqTerminatesWitness ==
    /\ seqPc = "done"
    /\ outLen >= 3
    /\ \E acc \in DOMAIN byNonce : Len(PartitionOf(acc)) >= 2


(***************************************************************************)
(* Internal transactions and their recorders                               *)
(***************************************************************************)
MaxRegistered == 3

\* VMEnv.AddInternalTransaction: "if len(self.internalTxs) > 500"
MaxInternalTxs == 500

ZeroHash == "0x0"
TxHashes == {"h1", "h2"}
Depths == {1, 2}
EnvDepths == {0, 1}

\* types.NewInternalTransaction: the transaction fields as passed (nonce, gas
\* price, gas limit and payload are stored as passed and left out), an
\* empty parent hash and Rejected = false
NewInternalTransaction(sender, recipient, amount, d, index, note) ==
    [Sender |-> sender, Recipient |-> recipient, Amount |-> amount,
     ParentHash |-> ZeroHash, Depth |-> d, Index |-> index, Note |-> note,
     Rejected |-> FALSE]

\* an index that counts from one
WatcherIndexFromOne(list) == Len(list) + 1

\* InternalTxWatcher.index
WatcherIndex(list) == Len(list)

RegisterCall(list, srcAddr, dstAddr, value, d) ==
    Append(list, NewInternalTransaction(srcAddr, dstAddr, value, d, WatcherIndex(list), "call"))

RegisterStaticCall(list, srcAddr, dstAddr, d) ==
    Append(list, NewInternalTransaction(srcAddr, dstAddr, 0, d, WatcherIndex(list), "staticcall"))

RegisterCallCode(list, contractAddr, value, d) ==
    Append(list, NewInternalTransaction(contractAddr, contractAddr, value, d, WatcherIndex(list), "call"))

RegisterCreate(list, srcAddr, newContractAddr, value, d) ==
    Append(list, NewInternalTransaction(srcAddr, newContractAddr, value, d, WatcherIndex(list), "create"))

RegisterDelegateCall(list, callerAddr, value, d) ==
    Append(list, NewInternalTransaction(callerAddr, callerAddr, value, d, WatcherIndex(list), "call"))

RegisterSuicide(list, contractAddr, creatorAddr, remainingValue, d) ==
    Append(list, NewInternalTransaction(contractAddr, creatorAddr, remainingValue, d, WatcherIndex(list), "suicide"))

\* a fix-up that clears the parent hash of the entries that have one
SetParentHashToggled(list, ph) ==
    [i \in DOMAIN list |->
        [list[i] EXCEPT !.ParentHash = IF list[i].ParentHash = ZeroHash THEN ph ELSE ZeroHash]]

\* the parent hash written to the first entry only
SetParentHashFirst(list, ph) ==
    [i \in DOMAIN list |-> IF i = 1 THEN [list[i] EXCEPT !.ParentHash = ph] ELSE list[i]]

\* InternalTxWatcher.SetParentHash
SetParentHash(list, ph) == [i \in DOMAIN list |-> [list[i] EXCEPT !.ParentHash = ph]]

\* an env that records the first entry it is handed and no other
\* an append that keeps the depth the entry came with
AddInternalTransactionKeepsDepth(list, h, d, inttx) ==
    IF Len(list) > MaxInternalTxs THEN list
    ELSE Append(list, [inttx EXCEPT !.ParentHash = h, !.Index = Len(list)])

AddInternalTransactionSingle(list, h, d, inttx) ==
    IF Len(list) > 0 THEN list
    ELSE Append(list, [inttx EXCEPT !.ParentHash = h, !.Index = Len(list), !.Depth = d])

\* VMEnv.AddInternalTransaction on the list, the hash and the depth of the env
AddInternalTransaction(list, h, d, inttx) ==
    IF Len(list) > MaxInternalTxs THEN list
    ELSE Append(list, [inttx EXCEPT !.ParentHash = h, !.Index = Len(list), !.Depth = d])

\* InternalTransaction.Reject
Reject(e) == [e EXCEPT !.Rejected = TRUE]

(* The state ledger of the env.  StateDB objects live in stateObjs and are  *)
(* named by their position; a ledger holds the balances of its accounts.   *)
LedgerAccounts == {"A", "B"}
EnvLedger == [a \in LedgerAccounts |-> 1]

\* StateDB.Copy: a new object with the content of object id
StateCopy(objs, id) == [objs |-> Append(objs, objs[id]), ref |-> Len(objs) + 1]

\* StateDB.Set: object id takes the content of object src
StateSet(objs, id, src) == [objs EXCEPT ![id] = objs[src]]

\* a snapshot that hands out the ledger of the env itself
MakeSnapshotShared(objs) == [objs |-> objs, ref |-> 1]

\* VMEnv.MakeSnapshot
MakeSnapshot(objs) == StateCopy(objs, 1)

\* a restore that prunes the rejected entries from the record
SetSnapshotPruned(objs, list, copy) ==
    [objs |-> StateSet(objs, 1, copy),
     internalTxs |-> SelectSeq(list, LAMBDA e : ~e.Rejected)]

\* VMEnv.SetSnapshot: the ledger is set, the record of the env is not touched
SetSnapshot(objs, list, copy) ==
    [objs |-> StateSet(objs, 1, copy), internalTxs |-> list]

\* VMEnv.CanTransfer
CanTransfer(objs, from, amount) == objs[1][from] >= amount

\* VMEnv.Transfer
Transfer(objs, from, to, amount) ==
    [objs EXCEPT ![1] = [@ EXCEPT ![from] = @ - amount, ![to] = @ + amount]]

IsEnv == revision \in {"env", "ledger"}

\* NewInternalTxWatcher / NewEnv: an empty recorder of either revision
RecInit ==
    /\ revision \in {"watcher", "env", "ledger"}
    /\ internals = <<>>
    /\ internalTxs = <<>>
    /\ depth = 0
    /\ hash \in TxHashes
    /\ producers = <<>>
    /\ dispatched = 0
    /\ stateObjs = << EnvLedger >>
    /\ handles = <<>>
    /\ restored = 0
    /\ SeqIdle /\ PoolIdle /\ ProcIdle /\ ExtIdle

WatcherStep(list, op) ==
    /\ revision = "watcher"
    /\ Len(internals) < MaxRegistered
    /\ internals' = list
    /\ producers' = Append(producers, op)
    /\ UNCHANGED <<revision, internalTxs, depth, hash, dispatched, stateObjs, handles,
                   restored, seqVars, poolVars, procVars, extVars>>

RecRegisterCall ==
    \E d \in Depths : WatcherStep(RegisterCall(internals, "A", "B", 1, d), "RegisterCall")

RecRegisterStaticCall ==
    \E d \in Depths :
        WatcherStep(RegisterStaticCall(internals, "A", "B", d), "RegisterStaticCall")

RecRegisterCallCode ==
    \E d \in Depths : WatcherStep(RegisterCallCode(internals, "B", 1, d), "RegisterCallCode")

RecRegisterCreate ==
    \E d \in Depths : WatcherStep(RegisterCreate(internals, "A", "C", 1, d), "RegisterCreate")

RecRegisterDelegateCall ==
    \E d \in Depths :
        WatcherStep(RegisterDelegateCall(internals, "B", 1, d), "RegisterDelegateCall")

RecRegisterSuicide ==
    \E d \in Depths :
        WatcherStep(RegisterSuicide(internals, "C", "A", 1, d), "RegisterSuicide")

RecSetParentHash ==
    /\ revision = "watcher"
    /\ \E ph \in TxHashes : internals' = SetParentHash(internals, ph)
    /\ UNCHANGED <<revision, internalTxs, depth, hash, producers, dispatched, stateObjs,
                   handles, restored, seqVars, poolVars, procVars, extVars>>

\* VMEnv.SetDepth
EnvSetDepth ==
    /\ revision = "env"
    /\ Len(internalTxs) < MaxRegistered
    /\ \E i \in EnvDepths : i # depth /\ depth' = i
    /\ UNCHANGED <<revision, internals, internalTxs, hash, producers, dispatched,
                   stateObjs, handles, restored, seqVars, poolVars, procVars, extVars>>

\* the kinds of the entries the virtual machine hands to the env: any kind for
\* the first MaxRegistered entries, then the kind of the last one over and
\* over (a contract that calls itself); calls only beside the state ledger
EnvNotes ==
    IF revision = "ledger" THEN {"call"}
    ELSE IF Len(internalTxs) < MaxRegistered THEN {"call", "create"}
    ELSE {internalTxs[Len(internalTxs)].Note}

\* the sub-operations of one execution: enough to pass the cap of the env
MaxDispatched == MaxInternalTxs + 2

\* VMEnv.AddInternalTransaction with a new entry of the virtual machine: the
\* report of one dispatched Call, CallCode, DelegateCall (call) or Create
\* the entry a dispatch hands over: it comes with a depth, an index and a parent
\* hash of its own
PassedEntry(note) ==
    [NewInternalTransaction("A", "B", 1, 7, 9, note) EXCEPT !.ParentHash = "h0"]

EnvAddInternalTransaction ==
    /\ IsEnv
    /\ revision = "ledger" => Len(internalTxs) < MaxRegistered
    /\ dispatched < MaxDispatched
    /\ \E note \in EnvNotes :
          internalTxs' = AddInternalTransaction(internalTxs, hash, depth, PassedEntry(note))
    /\ dispatched' = dispatched + 1
    /\ restored' = 0
    /\ UNCHANGED <<revision, internals, depth, hash, producers, stateObjs, handles,
                   seqVars, poolVars, procVars, extVars>>

\* InternalTransaction.Reject on an entry the virtual machine handed to the env
EnvReject ==
    /\ revision = "ledger"
    /\ \E i \in 1..Len(internalTxs) :
          /\ ~internalTxs[i].Rejected
          /\ internalTxs' = [internalTxs EXCEPT ![i] = Reject(@)]
    /\ restored' = 0
    /\ UNCHANGED <<revision, internals, depth, hash, producers, dispatched, stateObjs,
                   handles, seqVars, poolVars, procVars, extVars>>

MaxSnapshots == 2

\* VMEnv.MakeSnapshot: the handle is kept beside the content of the ledger
\* and the length of the record at the capture
EnvMakeSnapshot ==
    /\ revision = "ledger"
    /\ Len(handles) < MaxSnapshots
    /\ LET r == MakeSnapshot(stateObjs)
       IN /\ stateObjs' = r.objs
          /\ handles' = Append(handles, [obj |-> r.ref, captured |-> stateObjs[1],
                                         at |-> Len(internalTxs)])
    /\ restored' = 0
    /\ UNCHANGED <<revision, internals, internalTxs, depth, hash, producers, dispatched,
                   seqVars, poolVars, procVars, extVars>>

\* VMEnv.SetSnapshot with a handle MakeSnapshot returned
EnvSetSnapshot ==
    /\ revision = "ledger"
    /\ \E h \in 1..Len(handles) :
          LET r == SetSnapshot(stateObjs, internalTxs, handles[h].obj)
          IN /\ stateObjs' = r.objs
             /\ internalTxs' = r.internalTxs
             /\ restored' = h
    /\ UNCHANGED <<revision, internals, depth, hash, producers, dispatched, handles,
                   seqVars, poolVars, procVars, extVars>>

\* VMEnv.Transfer of one unit, where VMEnv.CanTransfer allows it
EnvTransfer ==
    /\ revision = "ledger"
    /\ \E from, to \in LedgerAccounts :
          /\ from # to
          /\ CanTransfer(stateObjs, from, 1)
          /\ stateObjs' = Transfer(stateObjs, from, to, 1)
    /\ restored' = 0
    /\ UNCHANGED <<revision, internals, internalTxs, depth, hash, producers, dispatched,
                   handles, seqVars, poolVars, procVars, extVars>>

RecNext ==
    \/ RecRegisterCall
    \/ RecRegisterStaticCall
    \/ RecRegisterCallCode
    \/ RecRegisterCreate
    \/ RecRegisterDelegateCall
    \/ RecRegisterSuicide
    \/ RecSetParentHash
    \/ EnvSetDepth
    \/ EnvAddInternalTransaction
    \/ EnvReject
    \/ EnvMakeSnapshot
    \/ EnvSetSnapshot
    \/ EnvTransfer

SpecRec == RecInit /\ [][RecNext]_vars

\* the recorder the execution reports to
Recorded == IF IsEnv THEN internalTxs ELSE internals

\* C3: once 500 entries are recorded every further registration is dropped,
\* so the recorded length never exceeds 500.
RecorderCap == Len(Recorded) <= 500

\* C10: the entry at position i of the recorded sequence has Index = i:
\* indices follow the creation order, contiguous from 0, none assigned twice.
RecorderIndexIsPosition ==
    \A i \in 1..Len(Recorded) : Recorded[i].Index = i - 1

\* MaxRegistered entries of different kinds and depths were recorded
RecorderIndexIsPositionWitness ==
    /\ Len(Recorded) >= 3
    /\ \E i, j \in 1..Len(Recorded) :
          /\ Recorded[i].Note # Recorded[j].Note
          /\ Recorded[i].Depth # Recorded[j].Depth

\* what identifies a recorded entry: everything but the parent hash and the
\* rejection flag, which SetParentHash and Reject write in place
EntryCore(e) == [e EXCEPT !.ParentHash = ZeroHash, !.Rejected = FALSE]

\* C11: the record is append-only: no operation (registration, Reject,
\* SetParentHash, MakeSnapshot, SetSnapshot) removes, reorders or replaces a
\* recorded entry; a restored snapshot leaves the entries of the failed frame.
RecorderAppendOnly ==
    [][/\ Len(Recorded') >= Len(Recorded)
       /\ \/ SubSeq(Recorded', 1, Len(Recorded)) = Recorded
          \/ \A i \in 1..Len(Recorded) :
                EntryCore(Recorded'[i]) = EntryCore(Recorded[i])]_vars

\* a snapshot was restored after entries had been recorded and rejected
\* since its capture, and they are in the record
RecorderAppendOnlyWitness ==
    /\ restored # 0
    /\ Len(internalTxs) >= handles[restored].at + 2
    /\ \E i \in 1..Len(internalTxs) : i > handles[restored].at /\ internalTxs[i].Rejected
    /\ stateObjs[1] = handles[restored].captured

\* C16: SetParentHash is idempotent and writes the parent hash only: the
\* second call with the same hash changes nothing, and a call keeps the
\* number and order of the entries and every other field of each entry.
SetParentHashIdempotent ==
    \A h \in TxHashes :
        LET once == SetParentHash(internals, h)
            twice == SetParentHash(once, h)
        IN /\ twice = once
           /\ Len(once) = Len(internals)
           /\ \A i \in 1..Len(internals) :
                 /\ once[i].ParentHash = h
                 /\ [once[i] EXCEPT !.ParentHash = internals[i].ParentHash] = internals[i]

\* SetParentHash has stamped entries of different kinds, and an entry was
\* registered after it
SetParentHashIdempotentWitness ==
    /\ revision = "watcher"
    /\ Len(internals) >= 3
    /\ internals[1].ParentHash \in TxHashes
    /\ internals[2].ParentHash = internals[1].ParentHash
    /\ internals[1].Note # internals[2].Note
    /\ internals[3].ParentHash = ZeroHash

\* the kind the specification gives to the entries of an operation
KindOf(op) ==
    CASE op = "RegisterCall" -> "call"
      [] op = "RegisterStaticCall" -> "staticcall"
      [] op = "RegisterCallCode" -> "callcode"
      [] op = "RegisterDelegateCall" -> "delegatecall"
      [] op = "RegisterCreate" -> "create"
      [] op = "RegisterSuicide" -> "suicide"

\* C17: every entry carries the kind of the operation that appended it, so
\* the kind of an entry tells which operation produced it.
RegisterKindTags ==
    /\ \A i \in 1..Len(internals) : internals[i].Note = KindOf(producers[i])
    /\ \A i, j \in 1..Len(internals) :
          internals[i].Note = internals[j].Note => producers[i] = producers[j]

\* C18: SetSnapshot(h) makes the ledger of the env what it was when h was
\* captured, and what a handle holds is not changed by later writes to the
\* ledger.
SnapshotRestores ==
    /\ restored # 0 => stateObjs[1] = handles[restored].captured
    /\ \A h \in 1..Len(handles) : stateObjs[handles[h].obj] = handles[h].captured

\* the first of two handles was restored; the ledger had been written
\* between the two captures and after the second
SnapshotRestoresWitness ==
    /\ restored = 1
    /\ Len(handles) = 2
    /\ handles[1].captured # handles[2].captured
    /\ handles[1].captured # EnvLedger
    /\ stateObjs[1] = handles[1].captured

MaxPoolGas == 9

\* GasPool.AddGas
AddGas(p, amount) == p + amount

\* a subtraction that does not look at what is left
SubGasUnchecked(p, amount) == [pool |-> p - amount, err |-> Nil]

\* GasPool.SubGas: fails, and leaves the pool alone, when less than amount is left
SubGas(p, amount) ==
    IF p < amount THEN [pool |-> p, err |-> "ErrGasLimitReached"]
    ELSE [pool |-> p - amount, err |-> Nil]

\* Process line 69: gp = new(GasPool).AddGas(block.GasLimit())
PoolInit ==
    /\ \E limit \in 0..MaxPoolGas : pool = AddGas(0, limit)
    /\ lastSub = NoSub
    /\ SeqIdle /\ RecIdle /\ ProcIdle /\ ExtIdle

PoolSubGas ==
    /\ \E amount \in 0..(MaxPoolGas + 1) :
          LET r == SubGas(pool, amount)
          IN /\ pool' = r.pool
             /\ lastSub' = [called |-> TRUE, amount |-> amount, before |-> pool, err |-> r.err]
    /\ UNCHANGED <<seqVars, recVars, procVars, extVars>>

PoolNext == PoolSubGas

SpecPool == PoolInit /\ [][PoolNext]_vars

\* C4: after any sequence of subtractions the remaining gas is >= 0, and a
\* subtraction of more than what remains fails and leaves the pool as it was.
PoolNeverNegative ==
    /\ pool >= 0
    /\ (lastSub.called /\ lastSub.amount > lastSub.before) =>
          /\ lastSub.err # Nil
          /\ pool = lastSub.before

\* a subtraction of more than what is left was refused on a pool that holds gas
PoolNeverNegativeWitness ==
    /\ lastSub.called
    /\ lastSub.amount > lastSub.before
    /\ lastSub.before > 0
    /\ lastSub.err = "ErrGasLimitReached"


(***************************************************************************)
(* The state ledger, the chain configuration and the blocks                *)
(***************************************************************************)
MaxBlockTxs == 2

Addrs == {"A", "B", "M", "D", "R"}
Coinbase == "M"
DAODrain == "D"
DAORefundContract == "R"
ZeroAddress == [origin |-> Nil, nonce |-> 0]

\* the transactions a block is made of: T1 pays B, T2 creates a contract,
\* T3 needs more than B owns before T1 paid it, T4 carries a bad signature
TxPool ==
    { [hash |-> "t1", from |-> "A", nonce |-> 0, gas |-> 1, to |-> "B",
        value |-> 1, gasPrice |-> 1, sigValid |-> TRUE],
      [hash |-> "t2", from |-> "A", nonce |-> 1, gas |-> 2, to |-> Nil,
        value |-> 0, gasPrice |-> 1, sigValid |-> TRUE],
      [hash |-> "t3", from |-> "B", nonce |-> 0, gas |-> 2, to |-> "A",
        value |-> 0, gasPrice |-> 1, sigValid |-> TRUE],
      [hash |-> "t4", from |-> "B", nonce |-> 0, gas |-> 1, to |-> "A",
        value |-> 0, gasPrice |-> 1, sigValid |-> FALSE] }

BlockReward == 1
GasLimits == {2, 3}
BlockNumbers == {1, 2}

Blocks ==
    { [number |-> n, gasLimit |-> g, coinbase |-> Coinbase, hash |-> "b1", txs |-> ts,
       uncles |-> IF n = 1 THEN <<>> ELSE << "u1" >>] :
        n \in BlockNumbers, g \in GasLimits, ts \in SeqsUpTo(TxPool, MaxBlockTxs) }

\* params.ChainConfig: the DAO fork at block 1 when configured, Byzantium from block 2
Configs ==
    { [DAOForkSupport |-> sup, DAOForkBlock |-> fb, ByzantiumBlock |-> 2] :
        sup \in BOOLEAN, fb \in {Nil, "1"} }

DAOForkBlockIs(cfg, n) == cfg.DAOForkBlock # Nil /\ cfg.DAOForkBlock = ToString(n)

\* a pre-pass that looks at the fork block being configured, not at its number
DAOForkAppliesAnywhere(cfg, n) == cfg.DAOForkSupport /\ cfg.DAOForkBlock # Nil

\* Process line 72: the condition of the hard-fork pre-pass
DAOForkApplies(cfg, n) == cfg.DAOForkSupport /\ DAOForkBlockIs(cfg, n)

IsByzantium(cfg, n) == n >= cfg.ByzantiumBlock

InitialLedger ==
    [balance |-> [a \in Addrs |-> CASE a = "A" -> 5 [] a = "B" -> 1 [] a = "D" -> 2 [] OTHER -> 0],
     nonce   |-> [a \in Addrs |-> 0],
     logs    |-> <<>>,
     thash   |-> ZeroHash,
     bhash   |-> ZeroHash,
     txIndex |-> 0,
     roots   |-> 0,
     finalised |-> 0,
     forks   |-> 0]

\* what a ledger holds: the accounts and the logs
LedgerContent(st) == [balance |-> st.balance, nonce |-> st.nonce, logs |-> st.logs]

\* StateDB.Prepare
Prepare(st, thash, bhash, ti) == [st EXCEPT !.thash = thash, !.bhash = bhash, !.txIndex = ti]

\* StateDB.GetLogs
GetLogs(st, thash) == SelectSeq(st.logs, LAMBDA l : l.thash = thash)

\* StateDB.IntermediateRoot: the root stands for the accounts it is computed over
IntermediateRoot(st) == [balance |-> st.balance, nonce |-> st.nonce]

\* the ledger after IntermediateRoot computed a root over it
RootTaken(st) == [st EXCEPT !.roots = @ + 1]

\* StateDB.Finalise: the pending changes are committed, no root is computed
Finalise(st) == [st EXCEPT !.finalised = @ + 1]

\* misc.ApplyDAOHardFork: the balance of the drained account goes to the refund contract
ApplyDAOHardFork(st) ==
    [st EXCEPT !.balance = [@ EXCEPT ![DAORefundContract] = @ + st.balance[DAODrain],
                                    ![DAODrain] = 0],
               !.forks = @ + 1]

\* consensus.Engine.Finalize: the flat reward of the proposer
Finalize(st, header) ==
    [st EXCEPT !.balance = [@ EXCEPT ![header.coinbase] = @ + BlockReward]]

\* crypto.CreateAddress
CreateAddress(origin, nonce) == [origin |-> origin, nonce |-> nonce]

(***************************************************************************)
(* The virtual machine as ApplyTransaction sees it                         *)
(***************************************************************************)
\* the sub-operations a run reports to the recorder
\* (reverted: the frame of the sub-operation, or a frame above it, failed and
\* was rolled back)
NoOps == <<>>
NestedOps == << [op |-> "Call", depth |-> 1, reverted |-> FALSE],
               [op |-> "Create", depth |-> 2, reverted |-> FALSE] >>
RevertedOps == << [op |-> "Call", depth |-> 1, reverted |-> FALSE],
                 [op |-> "Call", depth |-> 1, reverted |-> TRUE],
                 [op |-> "Create", depth |-> 2, reverted |-> TRUE] >>

\* the runs of the virtual machine on a transaction: the gas it uses, whether
\* it fails, the sub-operations it reports and the number of logs it emits
VMRuns(tx) ==
    { [used |-> u, failed |-> x[1], ops |-> x[2], logs |-> x[3]] :
        u \in 1..tx.gas,
        x \in { <<FALSE, NoOps, 0>>, <<FALSE, NestedOps, 1>>, <<FALSE, RevertedOps, 1>>,
                <<TRUE, NoOps, 0>>, <<TRUE, NestedOps, 0>> } }

\* the registrations of a run on the watcher of its transaction
RECURSIVE RegisterOps(_, _)
RegisterOps(list, ops) ==
    IF ops = <<>> THEN list
    ELSE LET o == Head(ops)
             next == CASE o.op = "Call" -> RegisterCall(list, "B", "A", 0, o.depth)
                       [] o.op = "StaticCall" -> RegisterStaticCall(list, "B", "A", o.depth)
                       [] o.op = "CallCode" -> RegisterCallCode(list, "B", 0, o.depth)
                       [] o.op = "Create" -> RegisterCreate(list, "B", "C", 0, o.depth)
                       [] o.op = "DelegateCall" -> RegisterDelegateCall(list, "B", 0, o.depth)
                       [] OTHER -> RegisterSuicide(list, "C", "B", 0, o.depth)
         IN RegisterOps(next, Tail(ops))

\* Transaction.AsMessage: the error of the sender derivation
AsMessage(tx) == IF tx.sigValid THEN Nil ELSE "ErrInvalidSig"

\* ApplyMessage: admission (nonce, balance for the gas, gas pool), then the run
ApplyMessage(st, tx, gpIn, coinbase, run) ==
    LET refused(e) == [err |-> e, statedb |-> st, gp |-> gpIn, usedGas |-> 0,
                       failed |-> FALSE, vmerr |-> "", ran |-> FALSE]
        sub == SubGas(gpIn, tx.gas)
    IN IF st.nonce[tx.from] # tx.nonce THEN refused("ErrNonce")
       ELSE IF st.balance[tx.from] < tx.gas * tx.gasPrice THEN refused("ErrInsufficientBalance")
       ELSE IF sub.err # Nil THEN refused(sub.err)
       ELSE LET paid == [st.balance EXCEPT ![tx.from] = @ - run.used * tx.gasPrice,
                                           ![coinbase] = @ + run.used * tx.gasPrice]
                moves == ~run.failed /\ tx.to # Nil /\ paid[tx.from] >= tx.value
                bal == IF moves
                       THEN [paid EXCEPT ![tx.from] = @ - tx.value, ![tx.to] = @ + tx.value]
                       ELSE paid
                newLogs == IF run.failed THEN <<>>
                           ELSE [i \in 1..run.logs |->
                                   [thash |-> st.thash, txIndex |-> st.txIndex,
                                    index |-> Len(st.logs) + i - 1]]
            IN [err |-> Nil,
                statedb |-> [st EXCEPT !.balance = bal,
                                       !.nonce = [@ EXCEPT ![tx.from] = @ + 1],
                                       !.logs = @ \o newLogs],
                gp |-> AddGas(sub.pool, tx.gas - run.used),
                usedGas |-> run.used,
                failed |-> run.failed,
                vmerr |-> IF run.failed THEN "execution failed" ELSE "",
                ran |-> TRUE]

NoReceipt == [valid |-> FALSE]

ApplyFailed(e, st, gpIn, used, ran) ==
    [err |-> e, receipt |-> NoReceipt, gas |-> 0, internals |-> <<>>, vmerr |-> "",
     statedb |-> st, gp |-> gpIn, usedGas |-> used, ran |-> ran]

\* a failure inside the virtual machine taken for an error of the message
MessageErrorWithVM(m) ==
    IF m.err # Nil THEN m.err ELSE IF m.failed THEN "execution failed" ELSE Nil

\* ApplyTransaction lines 117-119: the error that ends ApplyTransaction
MessageError(m) == m.err

\* the gas of the transaction alone
CumulativeOwn(used, gas) == gas

\* ApplyTransaction line 127: *usedGas += result.UsedGas
Cumulative(used, gas) == used + gas

\* a root computed under every ruleset
ReceiptRootAlways(cfg, header, st) == <<IntermediateRoot(st)>>

\* ApplyTransaction lines 121-126: the root of the receipt
ReceiptRoot(cfg, header, st) ==
    IF IsByzantium(cfg, header.number) THEN <<>> ELSE <<IntermediateRoot(st)>>

\* ApplyTransaction lines 122-126: what the choice of the root does to the ledger
Committed(cfg, header, st) ==
    IF IsByzantium(cfg, header.number) THEN Finalise(st) ELSE RootTaken(st)

\* one watcher kept over the block: it still holds what the transaction before
\* registered
NewInternalTxWatcherShared == IF intTxs = <<>> THEN <<>> ELSE intTxs[Len(intTxs)]

\* NewInternalTxWatcher: a watcher with an empty list
NewInternalTxWatcher == <<>>

\* ApplyTransaction lines 102-147: the message is applied, the receipt built
ApplyTransactionRun(cfg, gpIn, st, header, tx, used, run) ==
    LET m == ApplyMessage(st, tx, gpIn, header.coinbase, run)
        root == ReceiptRoot(cfg, header, m.statedb)
        post == Committed(cfg, header, m.statedb)
        cumulative == Cumulative(used, m.usedGas)
        receipt == [valid |-> TRUE,
                    PostState |-> root,
                    Status |-> IF m.failed THEN 0 ELSE 1,
                    CumulativeGasUsed |-> cumulative,
                    TxHash |-> tx.hash,
                    GasUsed |-> m.usedGas,
                    ContractAddress |-> IF tx.to = Nil THEN CreateAddress(tx.from, tx.nonce)
                                        ELSE ZeroAddress,
                    Logs |-> GetLogs(post, tx.hash),
                    BlockHash |-> post.bhash,
                    BlockNumber |-> header.number,
                    TransactionIndex |-> post.txIndex]
        itx == SetParentHash(RegisterOps(NewInternalTxWatcher, run.ops), tx.hash)
    IN IF MessageError(m) # Nil THEN ApplyFailed(MessageError(m), m.statedb, m.gp, used, m.ran)
       ELSE [err |-> Nil, receipt |-> receipt, gas |-> m.usedGas, internals |-> itx,
             vmerr |-> m.vmerr, statedb |-> post, gp |-> m.gp, usedGas |-> cumulative,
             ran |-> m.ran]

\* the message applied whatever the sender derivation said
ApplyTransactionUnchecked(cfg, gpIn, st, header, tx, used, run) ==
    ApplyTransactionRun(cfg, gpIn, st, header, tx, used, run)

\* the error of AsMessage looked at only after the message was applied
ApplyTransactionLateCheck(cfg, gpIn, st, header, tx, used, run) ==
    LET r == ApplyTransactionRun(cfg, gpIn, st, header, tx, used, run)
    IN IF AsMessage(tx) # Nil THEN ApplyFailed(AsMessage(tx), r.statedb, r.gp, used, r.ran) ELSE r

\* ApplyTransaction
ApplyTransaction(cfg, gpIn, st, header, tx, used, run) ==
    IF AsMessage(tx) # Nil THEN ApplyFailed(AsMessage(tx), st, gpIn, used, FALSE)
    ELSE ApplyTransactionRun(cfg, gpIn, st, header, tx, used, run)

(***************************************************************************)
(* StateProcessor.Process                                                  *)
(***************************************************************************)
ProcInit ==
    /\ block \in Blocks
    /\ config \in Configs
    /\ statedb = InitialLedger
    /\ entry = LedgerContent(statedb)
    /\ gp = 0
    /\ usedGas = 0
    /\ receipts = <<>>
    /\ allLogs = <<>>
    /\ intTxs = <<>>
    /\ vmerrs = <<>>
    /\ procI = 0
    /\ procPc = "call"
    /\ ret = NoReturn
    /\ applied = <<>>
    /\ finalized = 0
    /\ finalizeArgs = <<>>
    /\ SeqIdle /\ RecIdle /\ PoolIdle /\ ExtIdle

\* lines 62-74: the locals and the hard-fork pre-pass
ProcEnter ==
    /\ procPc = "call"
    /\ gp' = AddGas(0, block.gasLimit)
    /\ statedb' = IF DAOForkApplies(config, block.number)
                  THEN ApplyDAOHardFork(statedb)
                  ELSE statedb
    /\ procPc' = "loop"
    /\ UNCHANGED <<block, config, entry, usedGas, receipts, allLogs, intTxs, vmerrs,
                   procI, ret, applied, finalized, finalizeArgs, seqVars, recVars,
                   poolVars, extVars>>

\* the results gathered so far returned beside the error
ProcessErrorPartial(e) ==
    [receipts |-> receipts, logs |-> allLogs, intTxs |-> intTxs, vmerrs |-> vmerrs,
     gas |-> usedGas, err |-> e]

\* line 80: return nil, nil, nil, nil, 0, err
ProcessError(e) ==
    [receipts |-> <<>>, logs |-> <<>>, intTxs |-> <<>>, vmerrs |-> <<>>, gas |-> 0, err |-> e]

\* the transactions taken from the last to the first
TxAtReversed(b, i) == b.txs[Len(b.txs) - i]

\* line 76: for i, tx := range block.Transactions()
TxAt(b, i) == b.txs[i + 1]

\* the block finalized at any point of the loop
LoopDoneAnywhere(b, i) == TRUE

\* line 76: the range over block.Transactions() is exhausted
LoopDone(b, i) == i = Len(b.txs)

\* a pool of the block's gas limit made for every transaction
GasPoolPerTransaction(gpIn, b) == AddGas(0, b.gasLimit)

\* line 78: the pool made at line 69 is the one every ApplyTransaction is given
GasPoolOfBlock(gpIn, b) == gpIn

\* lines 76-86: one iteration of the loop over the transactions
ProcApply ==
    /\ procPc = "loop"
    /\ procI < Len(block.txs)
    /\ LET tx == TxAt(block, procI) IN
       \E run \in VMRuns(tx) :
          LET st == Prepare(statedb, tx.hash, block.hash, procI)
              r == ApplyTransaction(config, GasPoolOfBlock(gp, block), st, block, tx, usedGas,
                                    run)
          IN /\ statedb' = r.statedb
             /\ gp' = r.gp
             /\ usedGas' = r.usedGas
             /\ applied' = Append(applied,
                    [index |-> procI, tx |-> tx.hash, err |-> r.err, run |-> run,
                     ran |-> r.ran,
                     receipt |-> r.receipt, internals |-> r.internals,
                     before |-> LedgerContent(statedb), after |-> LedgerContent(r.statedb),
                     rootsBefore |-> statedb.roots, rootsAfter |-> r.statedb.roots,
                     finalisedBefore |-> statedb.finalised,
                     finalisedAfter |-> r.statedb.finalised,
                     gpBefore |-> gp, gpAfter |-> r.gp,
                     usedBefore |-> usedGas, usedAfter |-> r.usedGas])
             /\ IF r.err # Nil
                THEN /\ ret' = ProcessError(r.err)
                     /\ procPc' = "returned"
                     /\ UNCHANGED <<receipts, allLogs, intTxs, vmerrs, procI>>
                ELSE /\ receipts' = Append(receipts, r.receipt)
                     /\ allLogs' = allLogs \o r.receipt.Logs
                     /\ intTxs' = Append(intTxs, r.internals)
                     /\ vmerrs' = Append(vmerrs, r.vmerr)
                     /\ procI' = procI + 1
                     /\ UNCHANGED <<ret, procPc>>
    /\ UNCHANGED <<block, config, entry, finalized, finalizeArgs, seqVars, recVars,
                   poolVars, extVars>>

\* lines 87-90: the block is finalized and the results returned
ProcFinalize ==
    /\ procPc = "loop"
    /\ LoopDone(block, procI)
    /\ statedb' = Finalize(statedb, block)
    /\ finalized' = finalized + 1
    /\ finalizeArgs' = Append(finalizeArgs,
                          [header |-> block.number, statedb |-> LedgerContent(statedb),
                           txs |-> block.txs, uncles |-> block.uncles,
                           applied |-> Len(applied)])
    /\ ret' = [receipts |-> receipts, logs |-> allLogs, intTxs |-> intTxs,
               vmerrs |-> vmerrs, gas |-> usedGas, err |-> Nil]
    /\ procPc' = "returned"
    /\ UNCHANGED <<block, config, entry, gp, usedGas, receipts, allLogs, intTxs, vmerrs,
                   procI, applied, seqVars, recVars, poolVars, extVars>>

ProcNext == ProcEnter \/ ProcApply \/ ProcFinalize

SpecProc == ProcInit /\ [][ProcNext]_vars


(***************************************************************************)
(* Properties of Process                                                   *)
(***************************************************************************)
FailedReturn == procPc = "returned" /\ ret.err # Nil

\* C1: a fatal error of ApplyTransaction for transaction k ends Process at k:
\* no later transaction is applied, Finalize is not invoked, and Process
\* returns that error with no receipts, logs or reports and a gas total of 0.
ProcessStopsAtFatalError ==
    /\ \A j \in 1..Len(applied) :
          /\ applied[j].index = j - 1
          /\ applied[j].err # Nil =>
                /\ j = Len(applied)
                /\ procPc = "returned"
                /\ ret = [receipts |-> <<>>, logs |-> <<>>, intTxs |-> <<>>,
                          vmerrs |-> <<>>, gas |-> 0, err |-> applied[j].err]
                /\ finalized = 0
    /\ FailedReturn => (applied # <<>> /\ applied[Len(applied)].err = ret.err)

\* the second transaction of a block failed after the first had used gas and
\* left a receipt
ProcessStopsAtFatalErrorWitness ==
    /\ FailedReturn
    /\ Len(applied) = 2
    /\ Len(receipts) = 1
    /\ usedGas > 0

\* C2 as stated: after a fatal error the ledger handed to Process holds what
\* it held before the call.
LedgerRestoredOnFatalError == FailedReturn => LedgerContent(statedb) = entry

\* C2 as amended: after a fatal error the ledger handed to Process holds what
\* it held when the failing transaction was reached: what the pre-pass and
\* the earlier transactions wrote stays, the failing transaction and the
\* finalization write nothing.
LedgerKeptOnFatalError ==
    FailedReturn =>
        /\ LedgerContent(statedb) = applied[Len(applied)].before
        /\ finalized = 0
        /\ \A a \in Addrs : statedb.nonce[a] =
              Cardinality({j \in 1..(Len(applied) - 1) : block.txs[j].from = a})

\* a transaction failed after an earlier one had changed the ledger
LedgerKeptOnFatalErrorWitness ==
    /\ FailedReturn
    /\ Len(applied) >= 2
    /\ LedgerContent(statedb) # entry
    /\ statedb.nonce # InitialLedger.nonce

\* C12: the entries ApplyTransaction returns for the sub-operations of a
\* frame that failed and was rolled back (and of its descendants) have
\* Rejected = true, the entries of the other frames have Rejected = false.
RevertedFramesRejected ==
    \A k \in 1..Len(applied) :
        applied[k].err = Nil =>
            /\ Len(applied[k].internals) = Len(applied[k].run.ops)
            /\ \A i \in 1..Len(applied[k].internals) :
                  applied[k].internals[i].Rejected = applied[k].run.ops[i].reverted

\* C13: a failure inside the virtual machine gives a receipt with the failure
\* indicator set and no error; Process appends the receipt, applies the next
\* transaction and finalizes the block.
VMFailureNotFatal ==
    /\ \A k \in 1..Len(applied) :
          (applied[k].ran /\ applied[k].run.failed) =>
              /\ applied[k].err = Nil
              /\ applied[k].receipt.valid
              /\ applied[k].receipt.Status = 0
              /\ Len(receipts) >= k
              /\ receipts[k] = applied[k].receipt
              /\ vmerrs[k] # ""
              /\ (procPc = "returned" /\ k < Len(block.txs)) => Len(applied) > k
    /\ (procPc = "returned" /\ \A k \in 1..Len(applied) : applied[k].err = Nil) =>
          /\ finalized = 1
          /\ ret.err = Nil
          /\ ret.receipts = receipts
          /\ Len(receipts) = Len(block.txs)

\* the first of two transactions failed in the virtual machine, the second
\* was applied and the block finalized
VMFailureNotFatalWitness ==
    /\ procPc = "returned"
    /\ ret.err = Nil
    /\ finalized = 1
    /\ Len(ret.receipts) = 2
    /\ applied[1].run.failed
    /\ ret.receipts[1].Status = 0
    /\ ret.receipts[2].Status = 1

\* C14: a transaction whose sender cannot be derived makes ApplyTransaction
\* return the error before any execution: the virtual machine is not
\* invoked, there is no receipt, and the gas pool, the cumulative gas used
\* and the ledger are as they were.
BadSignatureFatalBeforeExecution ==
    \A k \in 1..Len(applied) :
        ~block.txs[k].sigValid =>
            /\ applied[k].err = "ErrInvalidSig"
            /\ ~applied[k].ran
            /\ applied[k].receipt = NoReceipt
            /\ applied[k].internals = <<>>
            /\ applied[k].gpAfter = applied[k].gpBefore
            /\ applied[k].usedAfter = applied[k].usedBefore
            /\ applied[k].after = applied[k].before
            /\ applied[k].rootsAfter = applied[k].rootsBefore
            /\ applied[k].finalisedAfter = applied[k].finalisedBefore

\* a transaction with a bad signature was reached after an earlier one had
\* drawn from the pool and changed the ledger
BadSignatureFatalBeforeExecutionWitness ==
    /\ Len(applied) = 2
    /\ ~block.txs[2].sigValid
    /\ applied[2].err = "ErrInvalidSig"
    /\ applied[2].gpBefore < block.gasLimit
    /\ applied[2].usedBefore > 0
    /\ applied[2].before # entry

\* C15: every entry of the list ApplyTransaction returns for a transaction
\* carries the hash of that transaction as ParentHash, whatever the number
\* of entries and whether or not the execution failed in the virtual machine.
InternalsCarryParentHash ==
    /\ \A k \in 1..Len(applied) :
          \A i \in 1..Len(applied[k].internals) :
              applied[k].internals[i].ParentHash = block.txs[k].hash
    /\ \A k \in 1..Len(intTxs) :
          /\ intTxs[k] = applied[k].internals
          /\ Len(intTxs[k]) = Len(applied[k].run.ops)

\* one transaction failed in the virtual machine and one did not, both with
\* several sub-operations recorded
InternalsCarryParentHashWitness ==
    /\ Len(intTxs) = 2
    /\ Len(intTxs[1]) >= 2
    /\ Len(intTxs[2]) >= 3
    /\ applied[1].run.failed
    /\ ~applied[2].run.failed
    /\ block.txs[1].hash # block.txs[2].hash

\* C20: the receipts of a block follow one regime, given by the configuration
\* and the number of the block: from the Byzantium block on a receipt has no
\* root and the ledger is finalised without a root being computed, before it
\* a receipt has the root of the ledger as its transaction left it.
ReceiptRootRegime ==
    /\ \A k \in 1..Len(receipts) :
          IF block.number >= config.ByzantiumBlock
          THEN /\ receipts[k].PostState = <<>>
               /\ applied[k].rootsAfter = applied[k].rootsBefore
               /\ applied[k].finalisedAfter = applied[k].finalisedBefore + 1
          ELSE /\ receipts[k].PostState =
                      << [balance |-> applied[k].after.balance,
                          nonce |-> applied[k].after.nonce] >>
               /\ applied[k].rootsAfter = applied[k].rootsBefore + 1
               /\ applied[k].finalisedAfter = applied[k].finalisedBefore
    /\ \A j, k \in 1..Len(receipts) :
          (receipts[j].PostState = <<>>) <=> (receipts[k].PostState = <<>>)

\* two receipts of a block before Byzantium, each with the root of its own
\* transaction
ReceiptRootRegimeWitness ==
    /\ Len(receipts) = 2
    /\ block.number < config.ByzantiumBlock
    /\ receipts[1].PostState # <<>>
    /\ receipts[1].PostState # receipts[2].PostState

Succeeded == procPc = "returned" /\ ret.err = Nil

\* C21 as stated: the hard-fork mutation is applied exactly when the number
\* of the block is the configured fork block.
DAOForkAtForkBlockOnly ==
    procPc # "call" =>
        (statedb.forks = 1 <=> DAOForkBlockIs(config, block.number))

\* C21 as amended: the hard-fork mutation is applied, once and before the
\* first transaction, exactly when the configuration supports the fork and
\* the number of the block is the configured fork block; otherwise the
\* pre-pass leaves the ledger as it was.
DAOForkAtSupportedForkBlock ==
    /\ procPc = "call" => (statedb.forks = 0 /\ LedgerContent(statedb) = entry)
    /\ procPc # "call" =>
          IF config.DAOForkSupport /\ config.DAOForkBlock = ToString(block.number)
          THEN /\ statedb.forks = 1
               /\ Len(applied) >= 1 =>
                     /\ applied[1].before.balance[DAODrain] = 0
                     /\ applied[1].before.balance[DAORefundContract] =
                           entry.balance[DAORefundContract] + entry.balance[DAODrain]
                     /\ \A a \in Addrs \ {DAODrain, DAORefundContract} :
                           applied[1].before.balance[a] = entry.balance[a]
                     /\ applied[1].before.nonce = entry.nonce
          ELSE /\ statedb.forks = 0
               /\ Len(applied) >= 1 => applied[1].before = entry

\* the balances were redistributed before the first transaction of the fork
\* block, which was then applied
DAOForkAtSupportedForkBlockWitness ==
    /\ statedb.forks = 1
    /\ Len(applied) = 2
    /\ applied[1].before # entry
    /\ applied[1].err = Nil
    /\ applied[2].err = Nil

\* C22: a Process call that succeeds has called Finalize once, after the last
\* transaction and not before or between transactions, with the ledger as
\* the last transaction left it and the transactions and uncles of the block.
FinalizeOnceAfterLast ==
    /\ procPc # "returned" => (finalized = 0 /\ finalizeArgs = <<>>)
    /\ (procPc = "returned" /\ ret.err # Nil) => finalized = 0
    /\ Succeeded =>
          /\ finalized = 1
          /\ Len(finalizeArgs) = 1
          /\ Len(applied) = Len(block.txs)
          /\ finalizeArgs[1].applied = Len(block.txs)
          /\ finalizeArgs[1].header = block.number
          /\ finalizeArgs[1].txs = block.txs
          /\ finalizeArgs[1].uncles = block.uncles
          /\ Len(applied) > 0 => finalizeArgs[1].statedb = applied[Len(applied)].after
          /\ (Len(applied) = 0 /\ statedb.forks = 0) => finalizeArgs[1].statedb = entry

\* a block of two transactions and an uncle was finalized
FinalizeOnceAfterLastWitness ==
    /\ Succeeded
    /\ Len(block.txs) = 2
    /\ block.uncles # <<>>
    /\ finalized = 1
    /\ finalizeArgs[1].statedb # entry

RECURSIVE ConcatLogs(_)
ConcatLogs(rs) == IF rs = <<>> THEN <<>> ELSE Head(rs).Logs \o ConcatLogs(Tail(rs))

\* C23: the transactions are applied one after another in the order of the
\* block; on success receipt, internal-transaction list and report i are the
\* outcome of transaction i, with transaction index i, and the logs are the
\* logs of the receipts in that order.
ProcessKeepsBlockOrder ==
    /\ \A k \in 1..Len(applied) :
          /\ applied[k].index = k - 1
          /\ applied[k].tx = block.txs[k].hash
    /\ Succeeded =>
          /\ Len(ret.receipts) = Len(block.txs)
          /\ Len(ret.intTxs) = Len(block.txs)
          /\ Len(ret.vmerrs) = Len(block.txs)
          /\ \A i \in 1..Len(block.txs) :
                /\ ret.receipts[i] = applied[i].receipt
                /\ ret.receipts[i].TxHash = block.txs[i].hash
                /\ ret.receipts[i].TransactionIndex = i - 1
                /\ ret.intTxs[i] = applied[i].internals
                /\ (ret.vmerrs[i] # "") <=> applied[i].run.failed
          /\ ret.logs = ConcatLogs(ret.receipts)

\* two different transactions, each with a log, were applied
ProcessKeepsBlockOrderWitness ==
    /\ Succeeded
    /\ Len(block.txs) = 2
    /\ block.txs[1].hash # block.txs[2].hash
    /\ ret.receipts[1].Logs # <<>>
    /\ ret.receipts[2].Logs # <<>>
    /\ Len(ret.logs) = 2

RECURSIVE GasSum(_, _)
GasSum(rs, i) == IF i = 0 THEN 0 ELSE rs[i].GasUsed + GasSum(rs, i - 1)

\* C24: the cumulative gas of receipt i is the sum of the gas used by the
\* transactions up to i: it does not decrease along the receipts, the gas of
\* a receipt is the difference to its predecessor, and the total Process
\* returns is the last cumulative value, 0 for a block without transactions.
CumulativeGasIsRunningSum ==
    /\ \A i \in 1..Len(receipts) :
          /\ receipts[i].GasUsed = applied[i].run.used
          /\ receipts[i].CumulativeGasUsed = GasSum(receipts, i)
          /\ i > 1 =>
                /\ receipts[i].CumulativeGasUsed >= receipts[i - 1].CumulativeGasUsed
                /\ receipts[i].GasUsed =
                      receipts[i].CumulativeGasUsed - receipts[i - 1].CumulativeGasUsed
    /\ Succeeded =>
          ret.gas = IF ret.receipts = <<>> THEN 0
                    ELSE ret.receipts[Len(ret.receipts)].CumulativeGasUsed

\* two transactions that used different amounts of gas
CumulativeGasIsRunningSumWitness ==
    /\ Succeeded
    /\ Len(ret.receipts) = 2
    /\ ret.receipts[1].GasUsed = 1
    /\ ret.receipts[2].GasUsed = 2
    /\ ret.gas = 3

(***************************************************************************)
(* Transaction (core/types/transaction.go): the signed data Dat and the     *)
(* three caches hash, size and from.  A cache is <<>> while nothing is      *)
(* stored and <<v>> afterwards; every Load and Store is one atomic step.    *)
(***************************************************************************)

Callers == {"c1", "c2"}

MaxInstances == 2

MaxTxCalls == 2

\* the order of the abstract curve group and its half: the two validation windows
Secp256k1N == 8

Secp256k1HalfN == 4

\* r values for which no public key can be recovered
OffCurve == {3}

ErrInvalidSig == "invalid v, r, s values"

ErrInvalidPublicKey == "invalid public key"

ErrRecover == "recovery failed"

ErrSign == "invalid private key"

NoErr == ""

\* amount, gasLimit and gasPrice are pointers: <<>> is nil and leaves the zero value
NewTransaction(nonce, to, amount, gasLimit, gasPrice, data) ==
    [Dat |-> [AccountNonce |-> nonce,
              Price |-> IF gasPrice # <<>> THEN gasPrice[1] ELSE 0,
              GasLimit |-> IF gasLimit # <<>> THEN gasLimit[1] ELSE 0,
              Recipient |-> <<to>>,
              Amount |-> IF amount # <<>> THEN amount[1] ELSE 0,
              Payload |-> data,
              V |-> 0, R |-> 0, S |-> 0],
     hash |-> <<>>, size |-> <<>>, from |-> <<>>]

\* the encoding of Dat: the list of its nine fields in declaration order
EncodeRLP(tx) ==
    <<tx.Dat.AccountNonce, tx.Dat.Price, tx.Dat.GasLimit, tx.Dat.Recipient, tx.Dat.Amount,
      tx.Dat.Payload, tx.Dat.V, tx.Dat.R, tx.Dat.S>>

\* bytes of the encoded fields: small integers take one byte, an address twenty-one,
\* a byte string its length plus a head unless it is one small byte
ContentSize(e) ==
    LET bytes(b) == IF Len(b) = 1 /\ b[1] < 128 THEN 1 ELSE 1 + Len(b)
    IN  1 + 1 + 1 + (IF e[4] = <<>> THEN 1 ELSE 21) + 1 + bytes(e[6]) + 1 + 1 + 1

HeadSize(c) == IF c < 56 THEN 1 ELSE 2

ListSize(c) == HeadSize(c) + c

\* what the write counter has counted after the whole list was written to it
WriteCounter(e) == HeadSize(ContentSize(e)) + ContentSize(e)

\* DecodeRLP fills Dat from the stream and stores the size the stream announced
DecodeRLP(e) ==
    [Dat |-> [AccountNonce |-> e[1], Price |-> e[2], GasLimit |-> e[3], Recipient |-> e[4],
              Amount |-> e[5], Payload |-> e[6], V |-> e[7], R |-> e[8], S |-> e[9]],
     hash |-> <<>>, size |-> << ListSize(ContentSize(e)) >>, from |-> <<>>]

\* a hash that also covers the cache cells of the object
RlpHashWithCaches(tx) == [keccak |-> <<EncodeRLP(tx), tx.size, tx.from>>]

RlpHash(tx) == [keccak |-> <<EncodeRLP(tx)>>]

SigHash(tx) ==
    [keccak |-> <<tx.Dat.AccountNonce, tx.Dat.Price, tx.Dat.GasLimit, tx.Dat.Recipient,
                  tx.Dat.Amount, tx.Dat.Payload>>]

ValidateSignatureValues(v, r, s, homestead) ==
    /\ r >= 1 /\ s >= 1
    /\ ~(homestead /\ s > Secp256k1HalfN)
    /\ r < Secp256k1N /\ s < Secp256k1N
    /\ v \in {27, 28}

\* recovery maps a digest and a signature to one public key, or fails
Ecrecover(h, sig) ==
    IF sig.r \in OffCurve
    THEN [pub |-> <<>>, err |-> ErrRecover]
    ELSE [pub |-> <<4, h, sig.r, sig.s, sig.v>>, err |-> NoErr]

publicKey(tx, homestead) ==
    IF ~ValidateSignatureValues(tx.Dat.V, tx.Dat.R, tx.Dat.S, homestead)
    THEN [pub |-> <<>>, err |-> ErrInvalidSig]
    ELSE LET rec == Ecrecover(SigHash(tx),
                              [r |-> tx.Dat.R, s |-> tx.Dat.S, v |-> (tx.Dat.V - 27) % 256])
         IN  IF rec.err # NoErr THEN [pub |-> <<>>, err |-> rec.err]
             ELSE IF Len(rec.pub) = 0 \/ rec.pub[1] # 4
                  THEN [pub |-> <<>>, err |-> ErrInvalidPublicKey]
                  ELSE [pub |-> rec.pub, err |-> NoErr]

\* the address is the digest of the key without its first byte
PubkeyToAddress(pub) == [addr |-> Tail(pub)]

\* a copy that takes the caches of the receiver along
WithSignatureInherits(tx, sig) ==
    [tx EXCEPT !.Dat.R = sig.r, !.Dat.S = sig.s, !.Dat.V = (sig.v + 27) % 256]

\* a new object around a copy of Dat, with R, S and V replaced
WithSignature(tx, sig) ==
    [Dat |-> [tx.Dat EXCEPT !.R = sig.r, !.S = sig.s, !.V = (sig.v + 27) % 256],
     hash |-> <<>>, size |-> <<>>, from |-> <<>>]

\* signing yields a 65 byte signature of the digest, or fails for an unusable key
Sign(h, prv) ==
    IF prv = "kA" THEN [sig |-> [r |-> 1, s |-> 2, v |-> 1, len |-> 65], err |-> NoErr]
    ELSE [sig |-> [r |-> 0, s |-> 0, v |-> 0, len |-> 0], err |-> ErrSign]

PrivateKeys == {"kA", "kBad"}

Signatures ==
    { [r |-> 1, s |-> 1, v |-> 0, len |-> 65],      \* valid under both rulesets
      [r |-> 1, s |-> 1, v |-> 0, len |-> 64] }     \* one byte short

\* the instances a run starts with: built by a constructor or decoded from a stream
Constructed ==
    { NewTransaction(1, "B", <<2>>, <<>>, <<1>>, <<>>) }
    \cup { DecodeRLP(<<1, 1, 3, <<"B">>, 2, <<7>>, sg[1], sg[2], sg[3]>>) :
             sg \in { <<27, 1, 1>>, <<28, 2, 5>>, <<27, 3, 1>> } }

NoVal == [hash |-> <<>>, size |-> <<>>, addr |-> <<>>]

IdleCaller == [pc |-> "idle", op |-> "", obj |-> 0, v |-> NoVal]

NoneComputed == [hash |-> 0, size |-> 0, from |-> 0]

TxOps == {"Hash", "Size", "From", "FromFrontier"}

\* a reading of the caches in which From never finds the sender
CacheOfFrontierOnly(tx, op) ==
    CASE op = "Hash" -> tx.hash
      [] op = "Size" -> tx.size
      [] op = "FromFrontier" -> tx.from
      [] OTHER -> <<>>

CacheOf(tx, op) ==
    CASE op = "Hash" -> tx.hash
      [] op = "Size" -> tx.size
      [] OTHER -> tx.from

AsVal(op, x) ==
    CASE op = "Hash" -> [NoVal EXCEPT !.hash = <<x>>]
      [] op = "Size" -> [NoVal EXCEPT !.size = <<x>>]
      [] OTHER -> [NoVal EXCEPT !.addr = <<x>>]

ValOf(op, v) ==
    CASE op = "Hash" -> v.hash[1]
      [] op = "Size" -> v.size[1]
      [] OTHER -> v.addr[1]

Returned(o, op, v, err) == [obj |-> o, op |-> op, v |-> v, err |-> err]

TxInit ==
    /\ \E tx \in Constructed : txObjs = <<tx>>
    /\ callers = [c \in Callers |-> IdleCaller]
    /\ computed = <<NoneComputed>>
    /\ results = {}
    /\ txCalls = 0
    /\ SeqIdle /\ RecIdle /\ PoolIdle /\ ProcIdle /\ ChainIdle

\* a goroutine enters Hash, Size, From or FromFrontier on one of the objects and
\* does the Load of the cache: a stored value is returned at once
TxLoad(c) ==
    /\ callers[c].pc = "idle"
    /\ txCalls < MaxTxCalls
    /\ txCalls' = txCalls + 1
    /\ \E o \in 1..Len(txObjs), op \in TxOps :
         LET cell == CacheOf(txObjs[o], op)
         IN  IF cell # <<>>
             THEN /\ results' = results \cup {Returned(o, op, AsVal(op, cell[1]), NoErr)}
                  /\ UNCHANGED callers
             ELSE /\ callers' = [callers EXCEPT ![c] = [pc |-> "compute", op |-> op, obj |-> o,
                                                         v |-> NoVal]]
                  /\ UNCHANGED results
    /\ UNCHANGED <<txObjs, computed, seqVars, recVars, poolVars, procVars,
                   chainVars>>

\* the computation between Load and Store; doFrom returns here when publicKey fails
TxCompute(c) ==
    /\ callers[c].pc = "compute"
    /\ LET me == callers[c]
           tx == txObjs[me.obj]
           pk == publicKey(tx, me.op = "From")
       IN  CASE me.op = "Hash" ->
                  /\ callers' = [callers EXCEPT ![c].pc = "store",
                                                 ![c].v = AsVal("Hash", RlpHash(tx))]
                  /\ computed' = [computed EXCEPT ![me.obj].hash = @ + 1]
                  /\ UNCHANGED results
             [] me.op = "Size" ->
                  /\ callers' = [callers EXCEPT ![c].pc = "store",
                                                 ![c].v = AsVal("Size", WriteCounter(EncodeRLP(tx)))]
                  /\ computed' = [computed EXCEPT ![me.obj].size = @ + 1]
                  /\ UNCHANGED results
             [] OTHER ->
                  IF pk.err # NoErr
                  THEN /\ results' = results \cup {Returned(me.obj, me.op, NoVal, pk.err)}
                       /\ callers' = [callers EXCEPT ![c] = IdleCaller]
                       /\ UNCHANGED computed
                  ELSE /\ callers' = [callers EXCEPT ![c].pc = "store",
                                                      ![c].v = AsVal(me.op, PubkeyToAddress(pk.pub))]
                       /\ computed' = [computed EXCEPT ![me.obj].from = @ + 1]
                       /\ UNCHANGED results
    /\ UNCHANGED <<txObjs, txCalls, seqVars, recVars, poolVars, procVars,
                   chainVars>>

\* the Store of the computed value, and the return of that value
TxStore(c) ==
    /\ callers[c].pc = "store"
    /\ LET me == callers[c]
           x == ValOf(me.op, me.v)
       IN  /\ txObjs' = CASE me.op = "Hash" -> [txObjs EXCEPT ![me.obj].hash = <<x>>]
                          [] me.op = "Size" -> [txObjs EXCEPT ![me.obj].size = <<x>>]
                          [] OTHER -> [txObjs EXCEPT ![me.obj].from = <<x>>]
           /\ results' = results \cup {Returned(me.obj, me.op, me.v, NoErr)}
    /\ callers' = [callers EXCEPT ![c] = IdleCaller]
    /\ UNCHANGED <<computed, txCalls, seqVars, recVars, poolVars, procVars,
                   chainVars>>

\* WithSignature on an object returns the copy; a signature of another length
\* panics, which ends the program
TxWithSignature ==
    /\ Len(txObjs) < MaxInstances
    /\ \E o \in 1..Len(txObjs), sig \in Signatures :
         /\ sig.len = 65
         /\ txObjs' = Append(txObjs, WithSignature(txObjs[o], sig))
    /\ computed' = Append(computed, NoneComputed)
    /\ UNCHANGED <<callers, results, txCalls, seqVars, recVars, poolVars, procVars,
                   chainVars>>

\* SignECDSA signs the digest and hands the signature to WithSignature; when
\* signing fails it returns the error and no object
TxSignECDSA ==
    /\ Len(txObjs) < MaxInstances
    /\ \E o \in 1..Len(txObjs), prv \in PrivateKeys :
         LET signed == Sign(SigHash(txObjs[o]), prv)
         IN  /\ signed.err = NoErr
             /\ txObjs' = Append(txObjs, WithSignature(txObjs[o], signed.sig))
    /\ computed' = Append(computed, NoneComputed)
    /\ UNCHANGED <<callers, results, txCalls, seqVars, recVars, poolVars, procVars,
                   chainVars>>

TxNext ==
    \/ \E c \in Callers : TxLoad(c)
    \/ \E c \in Callers : TxCompute(c)
    \/ \E c \in Callers : TxStore(c)
    \/ TxWithSignature
    \/ TxSignECDSA

SpecTx == TxInit /\ [][TxNext]_vars

\* the values Hash has returned for object o
HashesReturned(o) == {r.v.hash : r \in {x \in results : x.op = "Hash" /\ x.obj = o}}

(* C25: Hash returns one value per object under every interleaving of the   *)
(* Load, compute and Store steps of its callers: all the values returned    *)
(* for one object are equal, they are the value a first computation would   *)
(* give now, the cache holds that value once it is set, and a set cache     *)
(* never changes.                                                           *)
HashStable ==
    /\ [](\A o \in 1..Len(txObjs) :
            /\ HashesReturned(o) \subseteq {<< RlpHash(txObjs[o]) >>}
            /\ txObjs[o].hash \in {<<>>, << RlpHash(txObjs[o]) >>}
            /\ HashesReturned(o) # {} => txObjs[o].hash # <<>>)
    /\ [][\A o \in 1..Len(txObjs) :
            txObjs[o].hash # <<>> => txObjs'[o].hash = txObjs[o].hash]_vars

\* two callers raced through the first computation of one hash and both returned
HashStableWitness ==
    \E o \in 1..Len(txObjs) :
        /\ computed[o].hash = 2
        /\ \A c \in Callers : callers[c].pc = "idle"
        /\ HashesReturned(o) = {txObjs[o].hash}

(* C26: every derived value of an object (hash, size, sender) is computed   *)
(* at most once, also when several callers ask for it at the same time.     *)
ComputedAtMostOnce ==
    \A o \in 1..Len(computed) :
        computed[o].hash <= 1 /\ computed[o].size <= 1 /\ computed[o].from <= 1

\* the data of two objects agree except for the signature values
SameButSignature(d1, d2) == [d1 EXCEPT !.V = 0, !.R = 0, !.S = 0] = [d2 EXCEPT !.V = 0, !.R = 0, !.S = 0]

(* C27: WithSignature and SignECDSA do not write to the receiver: a step    *)
(* that returns a new object leaves every object there was as it is, data   *)
(* and caches; the new object has the data of its receiver but for V, R     *)
(* and S and starts with empty caches, and what an object caches as hash    *)
(* and sender is derived from its own data.                                 *)
SigningReturnsNewInstance ==
    /\ [][Len(txObjs') > Len(txObjs) =>
            /\ Len(txObjs') = Len(txObjs) + 1
            /\ SubSeq(txObjs', 1, Len(txObjs)) = txObjs
            /\ LET new == txObjs'[Len(txObjs')]
               IN  /\ new.hash = <<>> /\ new.size = <<>> /\ new.from = <<>>
                   /\ \E o \in 1..Len(txObjs) : SameButSignature(new.Dat, txObjs[o].Dat)]_vars
    /\ [](\A o \in 1..Len(txObjs) :
            /\ txObjs[o].hash \in {<<>>, << RlpHash(txObjs[o]) >>}
            /\ txObjs[o].from # <<>> =>
                 \E homestead \in BOOLEAN :
                     /\ publicKey(txObjs[o], homestead).err = NoErr
                     /\ txObjs[o].from[1] = PubkeyToAddress(publicKey(txObjs[o], homestead).pub))

\* a decoded object with both caches set and its signed copy, which has no size
\* cached and another hash
SigningReturnsNewInstanceWitness ==
    /\ Len(txObjs) = 2
    /\ txObjs[1].size # <<>> /\ txObjs[1].hash # <<>>
    /\ txObjs[2].size = <<>> /\ txObjs[2].hash # <<>>
    /\ txObjs[2].hash # txObjs[1].hash
    /\ SameButSignature(txObjs[1].Dat, txObjs[2].Dat)
    /\ txObjs[1].Dat.S # txObjs[2].Dat.S

(***************************************************************************)
(* GetHash (core/vm_env.go): the walk over the parent links of the blocks   *)
(* the chain resolves, started at the parent of the context's header.       *)
(***************************************************************************)

MaxHeight == 3

MaxHashCalls == 2

\* the hash of the block with number k on the branch of the header
MainHash(k) == <<"b0", "b1", "b2", "b3", "b4", "b5">>[k + 1]

MainBlock(k) ==
    [hash |-> MainHash(k), number |-> k, parent |-> IF k = 0 THEN ZeroHash ELSE MainHash(k - 1)]

\* a block with number 1 on another branch
SideBlock == [hash |-> "s1", number |-> 1, parent |-> MainHash(0)]

\* chain.GetBlock: the block stored under the hash, <<>> for nil
GetBlock(store, h) ==
    IF \E b \in store : b.hash = h
    THEN << CHOOSE b \in store : b.hash = h >>
    ELSE <<>>

\* a lookup by number in the whole store, whatever the branch
GetHashFnByNumber(ref, store, n, looked) ==
    IF \E b \in store : b.number = n
    THEN [hash |-> (CHOOSE b \in store : b.number = n).hash, lookups |-> looked + 1]
    ELSE [hash |-> ZeroHash, lookups |-> looked + 1]

\* the function GetHashFn returns, applied to n: the loop from ref along the
\* parent hashes; looked counts the calls of GetBlock
RECURSIVE GetHashFn(_, _, _, _)
GetHashFn(ref, store, n, looked) ==
    LET blk == GetBlock(store, ref)
    IN  IF blk = <<>> THEN [hash |-> ZeroHash, lookups |-> looked + 1]
        ELSE IF blk[1].number = n THEN [hash |-> blk[1].hash, lookups |-> looked + 1]
        ELSE GetHashFn(blk[1].parent, store, n, looked + 1)

\* NewEnv binds the function to the parent hash of the header and to the chain
GetHash(n) == GetHashFn(envHeader.ParentHash, chain, n, 0)

\* the context is built for a header of some height over a store that resolves
\* some of the ancestors and possibly a block of another branch
ChainInit ==
    /\ \E h \in 1..MaxHeight :
         /\ envHeader = [Number |-> h, ParentHash |-> MainHash(h - 1)]
         /\ \E present \in SUBSET (0..(h - 1)), side \in SUBSET {SideBlock} :
              chain = {MainBlock(k) : k \in present} \cup side
    /\ hashCalls = <<>>
    /\ SeqIdle /\ RecIdle /\ PoolIdle /\ ProcIdle /\ TxIdle

ChainGetHash ==
    /\ Len(hashCalls) < MaxHashCalls
    /\ \E n \in 0..(MaxHeight + 1) :
         LET r == GetHash(n)
         IN  hashCalls' = Append(hashCalls, [n |-> n, ret |-> r.hash, lookups |-> r.lookups])
    /\ UNCHANGED <<chain, envHeader, seqVars, recVars, poolVars, procVars, txVars>>

ChainNext == ChainGetHash

SpecChain == ChainInit /\ [][ChainNext]_vars

(* C28: GetHash(n) returns the hash of the block with number n on the       *)
(* branch that starts at the parent of the header when the chain resolves   *)
(* every block from that parent down to number n, and the zero hash in      *)
(* every other case: n at or above the number of the header, or a block     *)
(* between the parent and n that the chain does not resolve.                *)
GetHashWalksParents ==
    \A i \in 1..Len(hashCalls) :
        LET n == hashCalls[i].n
        IN  hashCalls[i].ret =
                IF n < envHeader.Number /\ \A k \in n..(envHeader.Number - 1) : MainBlock(k) \in chain
                THEN MainHash(n)
                ELSE ZeroHash

\* one call found an ancestor below a fully resolved segment, one call ended at a
\* block the chain does not resolve although a block of that number is stored
GetHashWalksParentsWitness ==
    /\ envHeader.Number = 3
    /\ chain = {MainBlock(2), MainBlock(0), SideBlock}
    /\ Len(hashCalls) = 2
    /\ hashCalls[1] = [n |-> 2, ret |-> MainHash(2), lookups |-> 1]
    /\ hashCalls[2] = [n |-> 1, ret |-> ZeroHash, lookups |-> 2]

(* C29: GetHash is memoized in one context: a call with an argument that    *)
(* an earlier call had looks up no block and returns what that call gave.   *)
GetHashMemoized ==
    \A i, j \in 1..Len(hashCalls) :
        i < j /\ hashCalls[i].n = hashCalls[j].n =>
            hashCalls[j].lookups = 0 /\ hashCalls[j].ret = hashCalls[i].ret

(* C30: an entry the context records has as Depth the depth of the context  *)
(* at the step that registered it: AddInternalTransaction replaces the      *)
(* depth, the index and the parent hash the entry came with by the depth of *)
(* the context, the next index and the hash of the context, and no later    *)
(* step changes the depth or the index of a recorded entry.                 *)
DepthIsContextDepth ==
    [][IsEnv =>
         /\ Len(internalTxs') > Len(internalTxs) =>
              /\ Len(internalTxs') = Len(internalTxs) + 1
              /\ internalTxs'[Len(internalTxs')].Depth = depth
              /\ internalTxs'[Len(internalTxs')].Index = Len(internalTxs)
              /\ internalTxs'[Len(internalTxs')].ParentHash = hash
         /\ \/ SubSeq(internalTxs', 1, Len(internalTxs)) = internalTxs
            \/ \A i \in 1..Len(internalTxs) :
                  /\ internalTxs'[i].Depth = internalTxs[i].Depth
                  /\ internalTxs'[i].Index = internalTxs[i].Index]_vars

\* an entry registered at depth 1 keeps that depth after the context went back to 0
DepthIsContextDepthWitness ==
    /\ revision = "env"
    /\ Len(internalTxs) = 2
    /\ internalTxs[1].Depth = 0 /\ internalTxs[2].Depth = 1
    /\ internalTxs[2].Index = 1 /\ internalTxs[2].ParentHash = hash
    /\ depth = 0

FromOps == {"From", "FromFrontier"}

\* the results of the calls of From and FromFrontier on object o that gave an address
SendersReturned(rs, o) == {r \in rs : r.obj = o /\ r.op \in FromOps /\ r.err = NoErr}

(* C31: once From or FromFrontier has given an address for an object, a     *)
(* call of either that starts later does not run the validation again and   *)
(* returns that address without error, whatever ruleset it asks for: all    *)
(* the addresses returned for one object are the one the cache holds, and   *)
(* the cache keeps it.  A derivation that fails returns the error and       *)
(* writes no cache, and a call returns an address without deriving it only  *)
(* when the cache holds one, so the call after a failure validates again.   *)
SenderCachedAcrossRulesets ==
    /\ [](\A o \in 1..Len(txObjs) : \A r \in SendersReturned(results, o) :
            txObjs[o].from = r.v.addr)
    /\ [][/\ \A o \in 1..Len(txObjs) :
               txObjs[o].from # <<>> => txObjs'[o].from = txObjs[o].from
          /\ \A c \in Callers :
               \* a call that starts: it goes on to the derivation only when no
               \* address was given yet and the cache is empty
               /\ (callers[c].pc = "idle" /\ callers'[c].pc = "compute"
                     /\ callers'[c].op \in FromOps) =>
                     /\ SendersReturned(results, callers'[c].obj) = {}
                     /\ txObjs[callers'[c].obj].from = <<>>
               \* a derivation that fails: the error is returned, nothing is cached
               /\ (callers[c].pc = "compute" /\ callers'[c].pc = "idle") =>
                     /\ txObjs' = txObjs
                     /\ \E r \in results' :
                          /\ r.obj = callers[c].obj /\ r.op = callers[c].op
                          /\ r.err # NoErr /\ r.v = NoVal
          /\ txCalls' = txCalls + 1 =>
               \A r \in results' \ results :
                   r.op \in FromOps => r.err = NoErr /\ txObjs[r.obj].from = r.v.addr]_vars

\* From failed on a signature that is valid under Frontier only and cached nothing,
\* FromFrontier then derived the sender
FailedDerivationCachesNothing ==
    \E o \in 1..Len(txObjs) :
        /\ ~ValidateSignatureValues(txObjs[o].Dat.V, txObjs[o].Dat.R, txObjs[o].Dat.S, TRUE)
        /\ \E r \in results : r.obj = o /\ r.op = "From" /\ r.err = ErrInvalidSig
        /\ \E r \in results : r.obj = o /\ r.op = "FromFrontier" /\ r.err = NoErr
                                /\ txObjs[o].from = r.v.addr
        /\ computed[o].from = 1

\* From returned the sender of a signature that Homestead rejects, from the cache
SenderCachedAcrossRulesetsWitness ==
    \E o \in 1..Len(txObjs) :
        /\ ~ValidateSignatureValues(txObjs[o].Dat.V, txObjs[o].Dat.R, txObjs[o].Dat.S, TRUE)
        /\ \E r \in results : r.obj = o /\ r.op = "From" /\ r.err = NoErr
        /\ computed[o].from = 1

(* C32: the recorder does not leak between the transactions of a block:     *)
(* the list ApplyTransaction returns for a transaction holds one entry per  *)
(* sub-operation of the run of that transaction, in the order of the run,   *)
(* with the indices 0, 1, 2, ... and the hash of that transaction as        *)
(* parent hash, whatever the transactions before it registered.             *)
RecorderFreshPerTransaction ==
    /\ \A k \in 1..Len(applied) :
          LET a == applied[k]
          IN  IF a.err # Nil THEN a.internals = <<>>
              ELSE /\ Len(a.internals) = Len(a.run.ops)
                   /\ \A i \in 1..Len(a.internals) :
                         /\ a.internals[i].Index = i - 1
                         /\ a.internals[i].Depth = a.run.ops[i].depth
                         /\ a.internals[i].ParentHash = a.tx
    /\ \A k \in 1..Len(intTxs) : intTxs[k] = applied[k].internals

\* two transactions of one block that both registered sub-operations
RecorderFreshPerTransactionWitness ==
    /\ procPc = "returned" /\ ret.err = Nil
    /\ Len(ret.intTxs) = 2
    /\ Len(ret.intTxs[1]) = 3 /\ Len(ret.intTxs[2]) = 2
    /\ ret.intTxs[1][3].Index = 2
    /\ ret.intTxs[2][1].Index = 0
    /\ ret.intTxs[2][1].ParentHash # ret.intTxs[1][1].ParentHash

(* C33: one gas pool, filled once with the gas limit of the block, serves   *)
(* all the transactions of a Process call: the pool and the gas used so far *)
(* always add up to the gas limit, a successful call returns a total of at  *)
(* most the gas limit, a transaction is applied only when its gas fits in   *)
(* what the pool has left, and one that passes the other admission tests    *)
(* and does not fit makes Process return the error of the pool.             *)
GasWithinBlockLimit ==
    /\ procPc # "call" => gp >= 0 /\ gp + usedGas = block.gasLimit
    /\ (procPc = "returned" /\ ret.err = Nil) =>
          ret.gas <= block.gasLimit /\ ret.gas = usedGas
    /\ \A k \in 1..Len(applied) :
          LET a == applied[k]
              tx == block.txs[k]
          IN  /\ a.gpBefore + a.usedBefore = block.gasLimit
              /\ a.err = Nil => tx.gas <= a.gpBefore
              /\ a.err = "ErrGasLimitReached" <=>
                    /\ AsMessage(tx) = Nil
                    /\ a.before.nonce[tx.from] = tx.nonce
                    /\ a.before.balance[tx.from] >= tx.gas * tx.gasPrice
                    /\ tx.gas > a.gpBefore
              /\ a.err = "ErrGasLimitReached" =>
                    /\ ~a.ran /\ a.gpAfter = a.gpBefore /\ a.usedAfter = a.usedBefore
                    /\ procPc = "returned" /\ ret = ProcessError("ErrGasLimitReached")

\* the second transaction would fit in the gas limit of the block but not in what
\* the first one left of the pool
GasWithinBlockLimitWitness ==
    /\ procPc = "returned"
    /\ ret.err = "ErrGasLimitReached"
    /\ Len(applied) = 2
    /\ applied[1].err = Nil /\ applied[1].usedAfter >= 1
    /\ block.txs[2].gas <= block.gasLimit
    /\ block.txs[2].gas > applied[2].gpBefore

====
